---- MODULE Spec2Model ----
(***************************************************************************)
(* CoCreate-cron-jobs: the class CoCreateCronJobs of src/src/index.js.     *)
(*                                                                         *)
(* Time is counted in minutes since 2024-09-01T00:00:00Z (a Sunday).       *)
(* A Date object is an integer instant, or InvalidDate.  An ISO 8601       *)
(* string is the record [date, time] of its UTC calendar day and its UTC   *)
(* minute of the day.  An optional field of a JavaScript object is a tuple *)
(* of length 0 (absent / undefined) or 1 (present).                        *)
(***************************************************************************)
EXTENDS Integers, Sequences, FiniteSets, TLC

VARIABLES
    resolver,       \* one call of getNextExecutionTime: its argument and outcome
    localTz,        \* the process's time zone (TZ), minutes east of UTC
    now,            \* the wall clock, new Date()
    db,             \* persisted job records, by _id
    bus,            \* crud-event notifications emitted and not yet handled
    scheduledJobs,  \* this.scheduledJobs: _id -> Timeout handle
    timers,         \* outstanding setTimeout timers (armed, not fired, not cleared)
    process,        \* "running", or "hung" inside a loop that never ends
    awaiting,       \* executeCronJob calls suspended at `await this.crud.send(read)`
    poll,           \* the sweep: time of the next setInterval tick, query in flight
    history         \* what the last operations did (observations for the properties)

vars == <<resolver, localTz, now, db, bus, scheduledJobs, timers, process, awaiting, poll, history>>

(***************************************************************************)
(* Bounds of the model                                                     *)
(***************************************************************************)
\* Last calendar day a Date can hold; one step further gives Invalid Date
\* (stands for the 8.64e15 ms limit of a JavaScript Date).
MaxDay == 75

\* the clock stops MaxElapsed minutes after the process started
MaxElapsed == 7

\* changes the outside world makes to the persisted job records
MaxEnvOps == 2

\* process restarts
MaxRestarts == 1

\* direct calls of scheduleCronJob (SpecArm)
MaxArmCalls == 2

\* crud-event notifications waiting to be handled
MaxBus == 1

\* writes of several job documents at once (SpecBatch)
MaxBatches == 2

(***************************************************************************)
(* JavaScript values                                                       *)
(***************************************************************************)
Absent == <<>>
Some(v) == <<v>>
Has(f) == f # <<>>
Val(f) == f[1]

MinutesPerDay == 1440

\* new Date(NaN): every getter returns NaN, every setter leaves it invalid
InvalidDate == -1

MaxInstant == MaxDay * MinutesPerDay + (MinutesPerDay - 1)

\* a Date holding instant t, or Invalid Date when t is out of range
MakeDate(t) == IF t < 0 \/ t > MaxInstant THEN InvalidDate ELSE t

\* Date.prototype.toISOString: the UTC calendar date and the UTC time of day
toISOString(d) == [date |-> d \div MinutesPerDay, time |-> d % MinutesPerDay]

\* new Date(isoString)
ParseDate(iso) == iso.date * MinutesPerDay + iso.time

WeekdayNames == <<"Sunday", "Monday", "Tuesday", "Wednesday", "Thursday", "Friday", "Saturday">>

MonthNames == <<"January", "February", "March", "April", "May", "June", "July",
                "August", "September", "October", "November", "December">>

\* Months are counted from September 2024 (month 0).
YearOfMonth(m) == 2024 + ((8 + m) \div 12)

MonthOfYear(m) == ((8 + m) % 12) + 1

IsLeapYear(y) == (y % 4 = 0) /\ ((y % 100 # 0) \/ (y % 400 = 0))

DaysInMonth(m) ==
    LET k == MonthOfYear(m) IN
    IF k = 2 THEN (IF IsLeapYear(YearOfMonth(m)) THEN 29 ELSE 28)
    ELSE IF k \in {4, 6, 9, 11} THEN 30 ELSE 31

\* <<month, day of month>> of calendar day `day` (day 0 is 2024-09-01)
RECURSIVE MonthAndDay(_, _)
MonthAndDay(day, m) ==
    IF day < DaysInMonth(m) THEN <<m, day + 1>>
    ELSE MonthAndDay(day - DaysInMonth(m), m + 1)

\* first calendar day of month m
RECURSIVE FirstDayOfMonth(_)
FirstDayOfMonth(m) == IF m = 0 THEN 0 ELSE FirstDayOfMonth(m - 1) + DaysInMonth(m - 1)

\* the calendar day of instant d on a clock `offset` minutes east of UTC
DayIn(d, offset) == (d + offset) \div MinutesPerDay

TimeIn(d, offset) == (d + offset) % MinutesPerDay

\* date.toLocaleString('en-US', {weekday: 'long', timeZone})
weekdayName(d, offset) == WeekdayNames[(DayIn(d, offset) % 7) + 1]

\* date.toLocaleString('en-US', {month: 'long', timeZone})
monthName(d, offset) == MonthNames[MonthOfYear(MonthAndDay(DayIn(d, offset), 0)[1])]

\* Date.prototype.getDate, in the process's local zone; 0 stands for NaN
getDate(d, zone) ==
    IF d = InvalidDate THEN 0 ELSE MonthAndDay(DayIn(d, zone), 0)[2]

\* d.setDate(d.getDate() + 1): the next local calendar day, same local time
setDateNextDay(d, zone) ==
    IF d = InvalidDate THEN InvalidDate ELSE MakeDate(d + MinutesPerDay)

\* d.setMonth(d.getMonth() + 1): same day-of-month number in the next local
\* month; a day number past the end of that month runs into the month after
setMonthNext(d, zone) ==
    IF d = InvalidDate THEN InvalidDate
    ELSE LET md == MonthAndDay(DayIn(d, zone), 0)
             day == FirstDayOfMonth(md[1] + 1) + (md[2] - 1)
         IN  MakeDate(day * MinutesPerDay + TimeIn(d, zone) - zone)

\* d.setHours(hours, minutes, seconds): local time of day on the same local day
setHours(d, t, zone) ==
    MakeDate(DayIn(d, zone) * MinutesPerDay + t.h * 60 + t.m - zone)

(***************************************************************************)
(* getNextExecutionTime (src/src/index.js, lines 163-223)                  *)
(***************************************************************************)
\* outcome of a walk that never leaves its while loop
Diverged == -2

\* schedule.timezone || 'UTC', as minutes east of UTC
timezoneOf(schedule) == IF Has(schedule.timezone) THEN Val(schedule.timezone) ELSE 0

\* lines 167-170: startTime if it is later than now, otherwise now
seedDate(schedule, nowDate) ==
    IF Has(schedule.startTime) /\ ParseDate(Val(schedule.startTime)) > nowDate
    THEN ParseDate(Val(schedule.startTime))
    ELSE nowDate

\* lines 172-175: one skip of 24 hours when the UTC date is in skipDates
applySkipDates(schedule, d) ==
    IF Has(schedule.skipDates) /\ toISOString(d).date \in Val(schedule.skipDates)
    THEN MakeDate(d + MinutesPerDay)
    ELSE d

\* lines 181-183: dayOfWeek was read once, before the loop, and is not read
\* again; the loop ends only when its condition is false on entry.  A Date
\* pushed past its range stays Invalid Date, so the loop state repeats.
RECURSIVE daysOfWeekWalk(_, _, _, _)
daysOfWeekWalk(d, dayOfWeek, allowed, zone) ==
    IF dayOfWeek \in allowed THEN d
    ELSE IF d = InvalidDate THEN Diverged
    ELSE daysOfWeekWalk(setDateNextDay(d, zone), dayOfWeek, allowed, zone)

\* lines 188-190: getDate() is read again on every iteration
RECURSIVE daysOfMonthWalk(_, _, _)
daysOfMonthWalk(d, allowed, zone) ==
    IF getDate(d, zone) \in allowed THEN d
    ELSE IF d = InvalidDate THEN Diverged
    ELSE daysOfMonthWalk(setDateNextDay(d, zone), allowed, zone)

\* lines 197-199: monthName was read once, before the loop
RECURSIVE monthsWalk(_, _, _, _)
monthsWalk(d, month, allowed, zone) ==
    IF month \in allowed THEN d
    ELSE IF d = InvalidDate THEN Diverged
    ELSE monthsWalk(setMonthNext(d, zone), month, allowed, zone)

\* cronParser.parseExpression(expr, {currentDate, tz}).next() for the daily
\* expression "<minute> <hour> * * *": the first instant strictly after
\* currentDate whose time of day in tz is hour:minute
cronNext(expr, currentDate, tz) ==
    LET today == DayIn(currentDate, tz) * MinutesPerDay + expr.hour * 60 + expr.minute - tz
    IN  IF today > currentDate THEN today ELSE today + MinutesPerDay

\* a returned value; evaluated: the expression evaluator was called
Returns(v, evaluated) == [returns |-> TRUE, value |-> v, evaluated |-> evaluated]

\* the call never returns (the process spins in a while loop)
Hang == [returns |-> FALSE, value |-> Absent, evaluated |-> FALSE]

\* candidate after the walks and the time of day (lines 164-206), or Diverged
candidateDate(schedule, nowDate, zone) ==
    LET tz == timezoneOf(schedule)
        \* lines 177-184
        onDaysOfWeek(d) ==
            IF Has(schedule.daysOfWeek)
            THEN daysOfWeekWalk(d, weekdayName(d, tz), Val(schedule.daysOfWeek), zone)
            ELSE d
        \* lines 186-191
        onDaysOfMonth(d) ==
            IF d # Diverged /\ Has(schedule.daysOfMonth)
            THEN daysOfMonthWalk(d, Val(schedule.daysOfMonth), zone)
            ELSE d
        \* lines 193-200
        onMonths(d) ==
            IF d # Diverged /\ Has(schedule.months)
            THEN monthsWalk(d, monthName(d, tz), Val(schedule.months), zone)
            ELSE d
        \* lines 202-206
        atTime(d) ==
            IF d # Diverged /\ Has(schedule.time)
            THEN setHours(d, Val(schedule.time), zone)
            ELSE d
    IN  atTime(onMonths(onDaysOfMonth(onDaysOfWeek(
            applySkipDates(schedule, seedDate(schedule, nowDate))))))

\* null when the candidate is past endTime; otherwise the evaluator's next
\* instant when cronExpression is present, otherwise the candidate
getNextExecutionTime(schedule, nowDate, zone) ==
    LET from(c) ==
            IF c = Diverged THEN Hang
            ELSE IF Has(schedule.endTime) /\ c > ParseDate(Val(schedule.endTime))
            THEN Returns(Absent, FALSE)
            ELSE IF Has(schedule.cronExpression)
            THEN Returns(Some(toISOString(
                     cronNext(Val(schedule.cronExpression), c, timezoneOf(schedule)))), TRUE)
            ELSE Returns(Some(toISOString(c)), FALSE)
    IN  from(candidateDate(schedule, nowDate, zone))


(***************************************************************************)
(* Job records and the timer table                                         *)
(***************************************************************************)
Jobs == {"j1", "j2"}

JobSeq == <<"j1", "j2">>

OrgSeq == <<"o1", "o2">>

organizationOf(j) == IF j = "j1" THEN "o1" ELSE "o2"

NoSchedule ==
    [startTime |-> Absent, endTime |-> Absent, skipDates |-> Absent,
     daysOfWeek |-> Absent, daysOfMonth |-> Absent, months |-> Absent,
     time |-> Absent, cronExpression |-> Absent, timezone |-> Absent]

\* the retryPolicy of the CronJobEvent example (lines 67-70): 3 retries,
\* "PT10M" (10 minutes) between them
ExampleRetryPolicy == [retries |-> 3, retryInterval |-> 10]

\* a job document as the CronJobEvent example describes it (lines 42-81)
JobRecord(j, schedule, active) ==
    [_id |-> j, organization_id |-> organizationOf(j), schedule |-> schedule,
     nextExecutionTime |-> Absent, status |-> "pending", active |-> active,
     job |-> TRUE, retryPolicy |-> Some(ExampleRetryPolicy),
     clusterId |-> Absent, severId |-> Absent, workerId |-> Absent]

\* near-term horizon of handleCrudEvent and of the sweep's query, in minutes
Horizon == 5

\* how long past due an assigned job must be for the sweep's query, in minutes
Grace == 1

\* period of the setInterval that runs pollForCronJobs, in minutes
PollInterval == 5

\* array.splice(i, 1), i counted from 1
Splice(seq, i) == SubSeq(seq, 1, i - 1) \o SubSeq(seq, i + 1, Len(seq))

\* the state one handler works on: the timer table, the outstanding timers,
\* the update batches it has sent, the jobs it executed, the jobs whose
\* schedule it handed to getNextExecutionTime, whether it hung
ProcessState ==
    [scheduledJobs |-> scheduledJobs, timers |-> timers, writes |-> <<>>,
     executed |-> {}, resolved |-> {}, hung |-> FALSE]

\* a loop that forgets the `i--` after splice(i, 1)
afterSpliceNoAdjust(i) == i + 1

\* the index the loop goes on with after splice(i, 1): `i--` (lines 126, 149)
\* and the loop's `i++`
afterSplice(i) == i

\* a test that forgets the 5 minutes
notYetDue(timeUntilExecution) == timeUntilExecution > 0

\* line 143: within the next 5 minutes and not yet due
withinHorizon(timeUntilExecution) ==
    timeUntilExecution <= Horizon /\ timeUntilExecution > 0

\* setTimeout returns a handle no live or remembered timer has
FreshHandle(ps) ==
    CHOOSE h \in 1..(Cardinality(ps.timers) + Cardinality(Jobs) + 1) :
        /\ \A t \in ps.timers : t.handle # h
        /\ \A j \in Jobs : ps.scheduledJobs[j] # Some(h)

\* clearTimeout(handle)
clearTimeout(ps, handle) ==
    [ps EXCEPT !.timers = {t \in ps.timers : t.handle # handle}]

\* a disarm that does not come back when the id has no entry
disarmOrStop(ps, id) ==
    IF Has(ps.scheduledJobs[id])
    THEN [clearTimeout(ps, Val(ps.scheduledJobs[id])) EXCEPT !.scheduledJobs[id] = Absent]
    ELSE [ps EXCEPT !.hung = TRUE]

\* lines 118-123: the timer of the id is cleared and its entry deleted when
\* the table has one; nothing happens otherwise
disarm(ps, id) ==
    IF Has(ps.scheduledJobs[id])
    THEN [clearTimeout(ps, Val(ps.scheduledJobs[id])) EXCEPT !.scheduledJobs[id] = Absent]
    ELSE ps

\* updateCronJob (lines 353-386): one object.update per element, each carrying
\* the whole array, then one update of the organization document; the
\* sends are recorded as one batch of records
updateCronJob(ps, objects) == [ps EXCEPT !.writes = Append(@, objects)]

\* executeCronJob from line 276 on: resolve again, complete the job when the
\* schedule is exhausted, persist
executeResolved(ps, object, nowDate, zone) ==
    LET \* lines 278-283
        persist(o) ==
            [ps |-> updateCronJob([ps EXCEPT !.executed = @ \cup {object._id},
                                             !.resolved = @ \cup {object._id}], <<o>>),
             object |-> o]
        \* lines 276-281
        resolved(r) ==
            IF ~r.returns
            THEN [ps |-> [ps EXCEPT !.hung = TRUE], object |-> object]
            ELSE IF Has(r.value)
            THEN persist([object EXCEPT !.nextExecutionTime = r.value])
            ELSE persist([object EXCEPT !.nextExecutionTime = r.value,
                                        !.active = FALSE, !.status = "completed"])
    IN  resolved(getNextExecutionTime(object.schedule, nowDate, zone))

\* lines 242-250: the object the timer callback keeps
timerObject(object) ==
    [_id |-> object._id, nextExecutionTime |-> object.nextExecutionTime,
     status |-> object.status, clusterId |-> Some("id"), severId |-> Some("id"),
     workerId |-> Some("id"), organization_id |-> object.organization_id]

\* scheduleCronJob (lines 231-255).  A missing nextExecutionTime gives a NaN
\* delay: NaN <= 0 is false and setTimeout(fn, NaN) fires at once.
scheduleCronJob(ps, object, nowDate, zone) ==
    LET known == Has(object.nextExecutionTime)
        delay == IF known THEN ParseDate(Val(object.nextExecutionTime)) - nowDate ELSE 0
        h == FreshHandle(ps)
    IN  IF known /\ delay <= 0
        THEN executeResolved(ps, object, nowDate, zone)
        ELSE [ps |-> [ps EXCEPT
                         !.timers = @ \cup {[handle |-> h, fireAt |-> nowDate + delay,
                                             object |-> timerObject(object)]},
                         !.scheduledJobs[object._id] = Some(h)],
              object |-> object]

\* handleCrudEvent, the loop of lines 116-151 from index i on
RECURSIVE handleRecords(_, _, _, _, _, _)
handleRecords(ps, method, object, i, nowDate, zone) ==
    IF i > Len(object) THEN [ps |-> ps, object |-> object]
    ELSE
    LET rec == object[i] IN
    IF method = "object.delete" \/ rec.active = FALSE
    THEN LET after(disarmed) ==
                 IF disarmed.hung THEN [ps |-> disarmed, object |-> object]
                 ELSE handleRecords(disarmed, method, Splice(object, i), afterSplice(i),
                                    nowDate, zone)
         IN  after(disarm(ps, rec._id))
    ELSE
    LET \* line 131: the record's schedule goes to getNextExecutionTime
        called == [ps EXCEPT !.resolved = @ \cup {rec._id}]
        \* after scheduleCronJob (line 146): on to the next record
        after(armed) ==
            IF armed.ps.hung THEN [ps |-> armed.ps, object |-> object]
            ELSE handleRecords(armed.ps, method, [object EXCEPT ![i] = armed.object],
                               i + 1, nowDate, zone)
        \* lines 131-149, nextExecutionTime being r
        resolved(r) ==
            IF ~r.returns THEN [ps |-> [called EXCEPT !.hung = TRUE], object |-> object]
            ELSE IF ~Has(r.value)
            THEN handleRecords(called, method, Splice(object, i), afterSplice(i), nowDate, zone)
            ELSE IF Has(ps.scheduledJobs[rec._id])
            THEN handleRecords(called, method, object, i + 1, nowDate, zone)
            ELSE
            IF withinHorizon(ParseDate(Val(r.value)) - nowDate)
            THEN after(scheduleCronJob(
                     called, [rec EXCEPT !.nextExecutionTime = r.value, !.status = "assigned"],
                     nowDate, zone))
            ELSE handleRecords(called, method,
                               [object EXCEPT ![i] = [rec EXCEPT !.nextExecutionTime = r.value]],
                               i + 1, nowDate, zone)
    IN  resolved(getNextExecutionTime(rec.schedule, nowDate, zone))

\* a filter that lets every collection whose name begins with 'cron-job' in
isJobFamily(array) == array \in {"cron-job", "cron-jobs"}

\* line 111: the notification is about the job collection
isJobCollection(array) == array = "cron-job"

\* handleCrudEvent (lines 109-154)
handleCrudEvent(ps, data, nowDate, zone) ==
    IF ~isJobCollection(data.array) THEN ps
    ELSE LET persist(done) ==
                 IF done.ps.hung THEN done.ps ELSE updateCronJob(done.ps, done.object)
         IN  persist(handleRecords(ps, data.method, data.object, 1, nowDate, zone))


(***************************************************************************)
(* pollForCronJobs (lines 290-348)                                         *)
(***************************************************************************)
\* the records of organization o, in _id order
RECURSIVE recordsOf(_, _, _)
recordsOf(store, o, k) ==
    IF k > Len(JobSeq) THEN <<>>
    ELSE LET j == JobSeq[k] IN
         (IF Has(store[j]) /\ Val(store[j]).organization_id = o
          THEN <<Val(store[j])>> ELSE <<>>) \o recordsOf(store, o, k + 1)

\* the filter of lines 300-319 on one organization's job array: every
\* $elemMatch is satisfied by some element, not necessarily the same one
queryMatches(cronJobs, pollNow) ==
    LET InHorizon(r) == /\ Has(r.nextExecutionTime)
                        /\ ParseDate(Val(r.nextExecutionTime)) <= pollNow + Horizon
                        /\ ParseDate(Val(r.nextExecutionTime)) >= pollNow
        PastDue(r) == /\ Has(r.nextExecutionTime)
                      /\ ParseDate(Val(r.nextExecutionTime)) < pollNow - Grace
        NotAssigned(r) == r.status # "assigned"
        Assigned(r) == r.status = "assigned"
        Active(r) == r.active # FALSE
        elements == {cronJobs[k] : k \in 1..Len(cronJobs)}
    IN  \/ /\ \E r \in elements : InHorizon(r)
           /\ \E r \in elements : NotAssigned(r)
           /\ \E r \in elements : Active(r)
        \/ /\ \E r \in elements : PastDue(r)
           /\ \E r \in elements : Assigned(r)
           /\ \E r \in elements : Active(r)

\* the organization documents the object.read of lines 297-321 returns
RECURSIVE queryResult(_, _, _)
queryResult(store, pollNow, k) ==
    IF k > Len(OrgSeq) THEN <<>>
    ELSE LET cronJobs == recordsOf(store, OrgSeq[k], 1) IN
         (IF queryMatches(cronJobs, pollNow)
          THEN <<[organization_id |-> OrgSeq[k], cronJobs |-> Some(cronJobs)]>>
          ELSE <<>>) \o queryResult(store, pollNow, k + 1)

\* ToNumber(array): 0 for [], NaN (Absent) for an array of objects
arrayToNumber(array) == IF Len(array) = 0 THEN Some(0) ELSE Absent

\* j < cronJobs (line 328): a comparison with NaN is false
lessThanArray(j, array) ==
    Has(arrayToNumber(array)) /\ j < Val(arrayToNumber(array))

\* the inner loop of lines 328-341 from index j (counted from 0) on;
\* returned: the callback left through the `return` of line 330
RECURSIVE sweepJobs(_, _, _, _, _, _)
sweepJobs(ps, cronJobs, j, orgId, nowDate, zone) ==
    IF ~lessThanArray(j, cronJobs)
    THEN [ps |-> ps, cronJobs |-> cronJobs, returned |-> FALSE]
    ELSE IF Has(ps.scheduledJobs[cronJobs[j + 1]._id])
    THEN [ps |-> ps, cronJobs |-> cronJobs, returned |-> TRUE]
    ELSE
    LET job == [cronJobs[j + 1] EXCEPT
                   !.status = "assigned", !.clusterId = Some("id"),
                   !.severId = Some("id"), !.workerId = Some("id"),
                   !.organization_id = orgId]
        after(armed) ==
            IF armed.ps.hung
            THEN [ps |-> armed.ps, cronJobs |-> cronJobs, returned |-> TRUE]
            ELSE sweepJobs(armed.ps, [cronJobs EXCEPT ![j + 1] = armed.object],
                           j + 1, orgId, nowDate, zone)
    IN  after(scheduleCronJob(ps, job, nowDate, zone))

\* the then-callback of lines 321-345 from organization i on
RECURSIVE sweepOrganizations(_, _, _, _, _)
sweepOrganizations(ps, object, i, nowDate, zone) ==
    IF i > Len(object) THEN ps
    ELSE IF ~Has(object[i].cronJobs) THEN ps
    ELSE LET after(swept) ==
                 IF swept.returned THEN swept.ps
                 ELSE sweepOrganizations(updateCronJob(swept.ps, swept.cronJobs),
                                         object, i + 1, nowDate, zone)
         IN  after(sweepJobs(ps, Val(object[i].cronJobs), 0,
                             object[i].organization_id, nowDate, zone))


(***************************************************************************)
(* The process and the world around it                                     *)
(***************************************************************************)
\* the instant the process starts: 2024-09-10T00:00:00Z
SystemStart == ParseDate([date |-> 9, time |-> 0])

At(minutes) == Some(toISOString(SystemStart + minutes))

\* schedules the job documents of this model carry
SystemSchedules ==
    {[NoSchedule EXCEPT !.startTime = At(2)],
     [NoSchedule EXCEPT !.startTime = At(7)],
     [NoSchedule EXCEPT !.endTime = At(1)]}

\* pruned: the jobs whose deletion or deactivation handleCrudEvent handled
\* while a timer callback of theirs was awaiting its read
NoHistory ==
    [envOps |-> 0, restarts |-> 0, armCalls |-> 0, sent |-> <<>>, ran |-> {},
     resolved |-> {}, exec |-> Absent, sweep |-> Absent, handled |-> Absent,
     rejected |-> Absent, pruned |-> {}, executed |-> {}]

\* what every step forgets of the step before it
Forget(h) ==
    [h EXCEPT !.sent = <<>>, !.ran = {}, !.resolved = {}, !.exec = Absent,
              !.sweep = Absent, !.handled = Absent, !.rejected = Absent]

\* the ids of the batch's records that are deletions or deactivations
removedIds(data) ==
    {data.object[k]._id : k \in {n \in 1..Len(data.object) :
        data.method = "object.delete" \/ data.object[n].active = FALSE}}

\* the ids of the timer callbacks awaiting their read
inFlight == {o._id : o \in awaiting}

IdleResolver == [phase |-> "idle", schedule |-> NoSchedule, result |-> Hang]

\* constructor (lines 90-103): an empty timer table, the listener, the interval
Init ==
    /\ resolver = IdleResolver
    /\ localTz = 0
    /\ now = SystemStart
    /\ db = [j \in Jobs |-> Absent]
    /\ bus = <<>>
    /\ scheduledJobs = [j \in Jobs |-> Absent]
    /\ timers = {}
    /\ process = "running"
    /\ awaiting = {}
    /\ poll = [next |-> SystemStart + PollInterval, query |-> Absent]
    /\ history = NoHistory

\* object.update with upsert: the document with this _id becomes the record
RECURSIVE upsertAll(_, _, _)
upsertAll(store, objects, k) ==
    IF k > Len(objects) THEN store
    ELSE upsertAll([store EXCEPT ![objects[k]._id] = Some(objects[k])], objects, k + 1)

\* the batches of `writes` whose index is in ok reach the store, in order
RECURSIVE applyWrites(_, _, _, _)
applyWrites(store, writes, ok, k) ==
    IF k > Len(writes) THEN store
    ELSE applyWrites(IF k \in ok THEN upsertAll(store, writes[k], 1) ELSE store,
                     writes, ok, k + 1)

\* a handler has run to its end (or hung) from ProcessState to ps
Commit(ps, ok) ==
    /\ scheduledJobs' = ps.scheduledJobs
    /\ timers' = ps.timers
    /\ process' = IF ps.hung THEN "hung" ELSE "running"
    /\ db' = applyWrites(db, ps.writes, ok, 1)

\* the clock advances one minute.  Due timers and a due interval run first,
\* and a notification, a read or a query takes less than a minute.
Tick ==
    /\ now < SystemStart + MaxElapsed
    /\ process = "running" => /\ \A t \in timers : t.fireAt > now
                              /\ now < poll.next
                              /\ bus = <<>>
                              /\ awaiting = {}
                              /\ ~Has(poll.query)
    /\ now' = now + 1
    /\ history' = Forget(history)
    /\ UNCHANGED <<resolver, localTz, db, bus, scheduledJobs, timers, process, awaiting, poll>>

\* the notification of a change, delivered to the process or lost
Notify(method, rec, delivered) ==
    /\ delivered => Len(bus) < MaxBus
    /\ bus' = IF delivered
              THEN Append(bus, [method |-> method, array |-> "cron-job", object |-> <<rec>>])
              ELSE bus

\* a job document is created
EnvCreate(j, schedule, delivered) ==
    /\ history.envOps < MaxEnvOps
    /\ ~Has(db[j])
    /\ db' = [db EXCEPT ![j] = Some(JobRecord(j, schedule, TRUE))]
    /\ Notify("object.create", JobRecord(j, schedule, TRUE), delivered)
    /\ history' = [Forget(history) EXCEPT !.envOps = @ + 1]
    /\ UNCHANGED <<resolver, localTz, now, scheduledJobs, timers, process, awaiting, poll>>

\* a job document's schedule is changed, or its active flag
EnvUpdate(j, schedule, active, delivered) ==
    /\ history.envOps < MaxEnvOps
    /\ Has(db[j])
    /\ (schedule = Val(db[j]).schedule) # (active = Val(db[j]).active)
    /\ LET rec == [Val(db[j]) EXCEPT !.schedule = schedule, !.active = active]
       IN  /\ db' = [db EXCEPT ![j] = Some(rec)]
           /\ Notify("object.update", rec, delivered)
    /\ history' = [Forget(history) EXCEPT !.envOps = @ + 1]
    /\ UNCHANGED <<resolver, localTz, now, scheduledJobs, timers, process, awaiting, poll>>

\* a job document is deleted
EnvDelete(j, delivered) ==
    /\ history.envOps < MaxEnvOps
    /\ Has(db[j])
    /\ db' = [db EXCEPT ![j] = Absent]
    /\ Notify("object.delete", Val(db[j]), delivered)
    /\ history' = [Forget(history) EXCEPT !.envOps = @ + 1]
    /\ UNCHANGED <<resolver, localTz, now, scheduledJobs, timers, process, awaiting, poll>>

\* the 'crud-event' listener (lines 95-97) runs handleCrudEvent
HandleCrudEvent ==
    /\ process = "running"
    /\ bus # <<>>
    /\ \E ps \in {handleCrudEvent(ProcessState, Head(bus), now, localTz)} :
           /\ \E ok \in SUBSET (1..Len(ps.writes)) : Commit(ps, ok)
           /\ history' = [Forget(history) EXCEPT
                             !.sent = ps.writes, !.ran = ps.executed,
                             !.resolved = ps.resolved,
                             !.handled = Some([data |-> Head(bus), table |-> scheduledJobs,
                                               timers |-> timers]),
                             !.pruned = IF Head(bus).array = "cron-job"
                                        THEN @ \cup (removedIds(Head(bus)) \cap inFlight)
                                        ELSE @,
                             !.executed = @ \cup ps.executed]
    /\ bus' = Tail(bus)
    /\ UNCHANGED <<resolver, localTz, now, awaiting, poll>>

\* a timer comes due (lines 252-254): executeCronJob starts and, its object
\* carrying no job, suspends at the read of line 266
TimerFire(t) ==
    /\ process = "running"
    /\ t \in timers
    /\ t.fireAt <= now
    /\ timers' = timers \ {t}
    /\ awaiting' = awaiting \cup {t.object}
    /\ history' = Forget(history)
    /\ UNCHANGED <<resolver, localTz, now, db, bus, scheduledJobs, process, poll>>

\* the read returns the job's document: executeCronJob goes on (lines 272-283)
ExecuteResume(o) ==
    /\ process = "running"
    /\ o \in awaiting
    /\ Has(db[o._id])
    /\ awaiting' = awaiting \ {o}
    /\ \E done \in {executeResolved(ProcessState, Val(db[o._id]), now, localTz)} :
           /\ \E ok \in SUBSET (1..Len(done.ps.writes)) : Commit(done.ps, ok)
           /\ history' = [Forget(history) EXCEPT
                             !.sent = done.ps.writes, !.ran = done.ps.executed,
                             !.resolved = done.ps.resolved,
                             !.exec = Some([_id |-> o._id, active |-> Val(db[o._id]).active,
                                            status |-> Val(db[o._id]).status,
                                            pruned |-> o._id \in history.pruned]),
                             !.pruned = @ \cap {a._id : a \in awaiting \ {o}},
                             !.executed = @ \cup done.ps.executed]
    /\ UNCHANGED <<resolver, localTz, now, bus, poll>>

\* what the runtime does with a rejected promise that has no handler: it
\* warns and goes on, or it raises an uncaught exception that ends the process
UnhandledRejectionModes == {"running", "crashed"}

\* the read is rejected, or returns no document and object.schedule throws:
\* the async function's promise is rejected.  executeCronJob has no try/catch
\* and its callers (lines 235, 253) attach no catch to the promise.
ExecuteRejected(o) ==
    /\ process = "running"
    /\ o \in awaiting
    /\ awaiting' = awaiting \ {o}
    /\ process' \in UnhandledRejectionModes
    /\ history' = [Forget(history) EXCEPT
                      !.rejected = Some([_id |-> o._id, caught |-> FALSE]),
                      !.pruned = @ \cap {a._id : a \in awaiting \ {o}}]
    /\ UNCHANGED <<resolver, localTz, now, db, bus, scheduledJobs, timers, poll>>

\* the interval of lines 100-102 elapses: pollForCronJobs sends its query
PollStart ==
    /\ process = "running"
    /\ now >= poll.next
    /\ ~Has(poll.query)
    /\ poll' = [next |-> poll.next + PollInterval, query |-> Some(now)]
    /\ history' = Forget(history)
    /\ UNCHANGED <<resolver, localTz, now, db, bus, scheduledJobs, timers, process, awaiting>>

\* the query returns: the then-callback of lines 321-345
PollThen ==
    /\ process = "running"
    /\ Has(poll.query)
    /\ poll' = [poll EXCEPT !.query = Absent]
    /\ \E object \in {queryResult(db, Val(poll.query), 1)} :
       \E ps \in {sweepOrganizations(ProcessState, object, 1, now, localTz)} :
           /\ \E ok \in SUBSET (1..Len(ps.writes)) : Commit(ps, ok)
           /\ history' = [Forget(history) EXCEPT
                             !.sent = ps.writes, !.ran = ps.executed,
                             !.sweep = Some([object |-> object, table |-> scheduledJobs,
                                             live |-> {t.object._id : t \in timers},
                                             pollNow |-> Val(poll.query)]),
                             !.executed = @ \cup ps.executed]
    /\ UNCHANGED <<resolver, localTz, now, bus, awaiting>>

\* the query is rejected: the catch of lines 345-347 logs it
PollCatch ==
    /\ process = "running"
    /\ Has(poll.query)
    /\ poll' = [poll EXCEPT !.query = Absent]
    /\ history' = Forget(history)
    /\ UNCHANGED <<resolver, localTz, now, db, bus, scheduledJobs, timers, process, awaiting>>

\* the process dies and starts again: the constructor runs on a cold table
Restart ==
    /\ history.restarts < MaxRestarts
    /\ scheduledJobs' = [j \in Jobs |-> Absent]
    /\ timers' = {}
    /\ awaiting' = {}
    /\ bus' = <<>>
    /\ process' = "running"
    /\ poll' = [next |-> now + PollInterval, query |-> Absent]
    /\ history' = [Forget(history) EXCEPT !.restarts = @ + 1, !.pruned = {}]
    /\ UNCHANGED <<resolver, localTz, now, db>>

Next ==
    \/ Tick
    \/ \E j \in Jobs, s \in SystemSchedules, d \in BOOLEAN : EnvCreate(j, s, d)
    \/ \E j \in Jobs, s \in SystemSchedules, a \in BOOLEAN, d \in BOOLEAN : EnvUpdate(j, s, a, d)
    \/ \E j \in Jobs, d \in BOOLEAN : EnvDelete(j, d)
    \/ HandleCrudEvent
    \/ \E t \in timers : TimerFire(t)
    \/ \E o \in awaiting : ExecuteResume(o)
    \/ \E o \in awaiting : ExecuteRejected(o)
    \/ PollStart
    \/ PollThen
    \/ PollCatch
    \/ Restart

Spec == Init /\ [][Next]_vars


(***************************************************************************)
(* getNextExecutionTime on its own: one call per behaviour                 *)
(***************************************************************************)
\* 2024-09-<dayOfSeptember>T<hour>:<minute>:00Z
Sept(dayOfSeptember, hour, minute) ==
    [date |-> dayOfSeptember - 1, time |-> hour * 60 + minute]

ResolveSchedules ==
    [startTime : {Absent, Some(Sept(11, 12, 0))},
     endTime : {Absent, Some(Sept(9, 0, 0)), Some(Sept(10, 5, 0)), Some(Sept(11, 1, 0))},
     skipDates : {Absent, Some({Sept(10, 0, 0).date, Sept(11, 0, 0).date})},
     daysOfWeek : {Absent, Some({"Monday", "Wednesday"})},
     daysOfMonth : {Absent, Some({15}), Some({31})},
     months : {Absent, Some({"October"})},
     time : {Absent, Some([h |-> 2, m |-> 0])},
     cronExpression : {Absent, Some([minute |-> 0, hour |-> 2])},
     timezone : {Absent, Some(540)}]

\* Monday 10:00, Tuesday 00:00, Tuesday 10:00
ResolveNows == {ParseDate(Sept(9, 10, 0)), ParseDate(Sept(10, 0, 0)), ParseDate(Sept(10, 10, 0))}

\* UTC, and five hours west of it
ProcessZones == {0, -300}

InitResolve ==
    /\ resolver \in [phase : {"called"}, schedule : ResolveSchedules, result : {Hang}]
    /\ localTz \in ProcessZones
    /\ now \in ResolveNows
    /\ db = [j \in Jobs |-> Absent]
    /\ bus = <<>>
    /\ scheduledJobs = [j \in Jobs |-> Absent]
    /\ timers = {}
    /\ process = "running"
    /\ awaiting = {}
    /\ poll = [next |-> now + PollInterval, query |-> Absent]
    /\ history = NoHistory

\* the call returns
ResolveReturns ==
    /\ resolver.phase = "called"
    /\ \E r \in {getNextExecutionTime(resolver.schedule, now, localTz)} :
           /\ r.returns
           /\ resolver' = [resolver EXCEPT !.phase = "returned", !.result = r]
    /\ UNCHANGED <<localTz, now, db, bus, scheduledJobs, timers, process, awaiting, poll, history>>

\* the call is caught in one of its while loops for good
ResolveHangs ==
    /\ resolver.phase = "called"
    /\ ~getNextExecutionTime(resolver.schedule, now, localTz).returns
    /\ resolver' = [resolver EXCEPT !.phase = "hung"]
    /\ process' = "hung"
    /\ UNCHANGED <<localTz, now, db, bus, scheduledJobs, timers, awaiting, poll, history>>

NextResolve == ResolveReturns \/ ResolveHangs

SpecResolve == InitResolve /\ [][NextResolve]_vars


(***************************************************************************)
(* Properties of getNextExecutionTime (checked under SpecResolve)          *)
(***************************************************************************)
Returned == resolver.phase = "returned"

CallEnded == resolver.phase # "called"

ResultInstant == ParseDate(Val(resolver.result.value))

\* C6: when the schedule has an end boundary, getNextExecutionTime never
\* returns an instant later than it, also when a cronExpression is present
\* and the evaluator is seeded with a candidate at or before the boundary.
C6_NeverAfterEndTime ==
    (Returned /\ Has(resolver.schedule.endTime) /\ Has(resolver.result.value))
        => ResultInstant <= ParseDate(Val(resolver.schedule.endTime))

\* C7: getNextExecutionTime terminates for every schedule and every now: no
\* call stays in the daysOfWeek, daysOfMonth or months walk for ever.
C7_Terminates == resolver.phase # "hung"

\* the schedule sets `time` and nothing else
OnlyTime(schedule) == Has(schedule.time) /\ schedule = [NoSchedule EXCEPT !.time = schedule.time]

\* today (UTC) at the schedule's time of day
TodayAtTime(schedule) ==
    DayIn(now, 0) * MinutesPerDay + Val(schedule.time).h * 60 + Val(schedule.time).m

\* C8: for a schedule with only `time` set (the process's own clock being on
\* UTC, the schedule's default timezone), the call returns today at that
\* time when now is before it, and tomorrow at that time (a strictly future
\* instant, never one earlier than now) when now is after it.
C8_TimeOnly ==
    (CallEnded /\ OnlyTime(resolver.schedule) /\ localTz = 0) =>
        /\ Returned
        /\ Has(resolver.result.value)
        /\ now < TodayAtTime(resolver.schedule)
              => ResultInstant = TodayAtTime(resolver.schedule)
        /\ now > TodayAtTime(resolver.schedule)
              => /\ ResultInstant = TodayAtTime(resolver.schedule) + MinutesPerDay
                 /\ ResultInstant > now

\* the schedule sets daysOfWeek and time, a timezone or not, and nothing else
OnlyDaysOfWeekAndTime(schedule) ==
    /\ Has(schedule.daysOfWeek)
    /\ Has(schedule.time)
    /\ schedule = [NoSchedule EXCEPT !.daysOfWeek = schedule.daysOfWeek,
                                     !.time = schedule.time,
                                     !.timezone = schedule.timezone]

\* the first calendar day after `day` whose weekday is allowed
FirstLaterDay(day, allowed) ==
    CHOOSE d \in (day + 1)..(day + 7) :
        /\ WeekdayNames[(d % 7) + 1] \in allowed
        /\ \A e \in (day + 1)..(d - 1) : WeekdayNames[(e % 7) + 1] \notin allowed

\* C9: for a schedule with daysOfWeek and time, called on a day whose weekday
\* (in the schedule's timezone) is not in daysOfWeek, the call returns the
\* first later calendar day whose weekday is in the set, at the given time.
C9_NextAllowedWeekday ==
    LET schedule == resolver.schedule
        tz == timezoneOf(schedule)
        allowed == Val(schedule.daysOfWeek)
        expected == FirstLaterDay(DayIn(now, tz), allowed) * MinutesPerDay
                        + Val(schedule.time).h * 60 + Val(schedule.time).m - tz
    IN  (/\ CallEnded
         /\ OnlyDaysOfWeekAndTime(schedule)
         /\ weekdayName(now, tz) \notin allowed)
        => (Returned /\ resolver.result.value = Some(toISOString(expected)))

\* C10: when the end boundary is before the earliest candidate (in
\* particular when it is already before now, every candidate being at or
\* after now), the call returns null, and the expression evaluator is not
\* called.
C10_ExhaustedPastEndTime ==
    (/\ CallEnded
     /\ Has(resolver.schedule.endTime)
     /\ ParseDate(Val(resolver.schedule.endTime)) < now)
    => (Returned /\ ~Has(resolver.result.value) /\ ~resolver.result.evaluated)


(***************************************************************************)
(* The timer table driven through scheduleCronJob itself                   *)
(***************************************************************************)
\* scheduleCronJob(object) is called for job j, due in `minutes` minutes
ScheduleCronJobCall(j, minutes) ==
    /\ process = "running"
    /\ history.armCalls < MaxArmCalls
    /\ Has(db[j])
    /\ \E armed \in {scheduleCronJob(
                         ProcessState,
                         [Val(db[j]) EXCEPT !.nextExecutionTime = At(now - SystemStart + minutes)],
                         now, localTz)} :
           /\ \E ok \in SUBSET (1..Len(armed.ps.writes)) : Commit(armed.ps, ok)
           /\ history' = [Forget(history) EXCEPT
                             !.armCalls = @ + 1, !.sent = armed.ps.writes,
                             !.ran = armed.ps.executed,
                             !.resolved = armed.ps.resolved,
                             !.executed = @ \cup armed.ps.executed]
    /\ UNCHANGED <<resolver, localTz, now, bus, awaiting, poll>>

NextArm ==
    \/ \E j \in Jobs, m \in 0..2 : ScheduleCronJobCall(j, m)
    \/ \E j \in Jobs, s \in SystemSchedules : EnvCreate(j, s, FALSE)
    \/ Tick
    \/ \E t \in timers : TimerFire(t)
    \/ \E o \in awaiting : ExecuteResume(o)
    \/ \E o \in awaiting : ExecuteRejected(o)

SpecArm == Init /\ [][NextArm]_vars

(***************************************************************************)
(* Notifications that carry several job documents (data.object is an array) *)
(***************************************************************************)
BatchOrders == {<<"j1", "j2">>, <<"j2", "j1">>}

\* due within the horizon, and already past its endTime
BatchSchedules ==
    {[NoSchedule EXCEPT !.startTime = At(2)],
     [NoSchedule EXCEPT !.endTime = At(1)]}

\* the document of job j after the write: created, or its schedule and its
\* active flag set
writtenRecord(method, j, schedule, active) ==
    IF method = "object.create" THEN JobRecord(j, schedule, active)
    ELSE IF method = "object.update"
    THEN [Val(db[j]) EXCEPT !.schedule = schedule, !.active = active]
    ELSE Val(db[j])

\* one write of the outside world on both job documents (an echo when it
\* changes nothing), notified as one crud-event
EnvBatch(method, order, schedules, actives) ==
    /\ history.envOps < MaxBatches
    /\ Len(bus) < MaxBus
    /\ \A j \in Jobs : Has(db[j]) <=> method # "object.create"
    /\ \E object \in {[k \in 1..2 |->
                           writtenRecord(method, order[k], schedules[k], actives[k])]} :
           /\ db' = [j \in Jobs |->
                        IF method = "object.delete" THEN Absent
                        ELSE Some(CHOOSE r \in {object[1], object[2]} : r._id = j)]
           /\ bus' = Append(bus, [method |-> method, array |-> "cron-job", object |-> object])
    /\ history' = [Forget(history) EXCEPT !.envOps = @ + 1]
    /\ UNCHANGED <<resolver, localTz, now, scheduledJobs, timers, process, awaiting, poll>>

\* collections other than 'cron-job': the one updateCronJob writes the job
\* records to (line 360) and the organizations (line 375)
OtherArrays == {"cron-jobs", "organizations"}

\* a document of another collection is written (here one that looks like a
\* job document) and the change is notified
EnvOther(array, j, schedule) ==
    /\ history.envOps < MaxBatches
    /\ Len(bus) < MaxBus
    /\ bus' = Append(bus, [method |-> "object.update", array |-> array,
                           object |-> <<JobRecord(j, schedule, TRUE)>>])
    /\ history' = [Forget(history) EXCEPT !.envOps = @ + 1]
    /\ UNCHANGED <<resolver, localTz, now, db, scheduledJobs, timers, process, awaiting, poll>>

NextBatch ==
    \/ \E array \in OtherArrays, j \in Jobs, schedule \in BatchSchedules :
          EnvOther(array, j, schedule)
    \/ \E method \in {"object.create", "object.update", "object.delete"},
          order \in BatchOrders,
          schedules \in [1..2 -> BatchSchedules], actives \in [1..2 -> BOOLEAN] :
          EnvBatch(method, order, schedules, actives)
    \/ Tick
    \/ HandleCrudEvent
    \/ \E t \in timers : TimerFire(t)
    \/ \E o \in awaiting : ExecuteResume(o)
    \/ \E o \in awaiting : ExecuteRejected(o)

\* the process from its start to its first sweep
SpecBatch == Init /\ [][NextBatch]_vars

(***************************************************************************)
(* Scheduling the code can count on: the clock advances, due timers and    *)
(* the interval fire, and no notification, read or query stays unanswered  *)
(* for ever                                                                *)
(***************************************************************************)
Stopped == process # "running"

FairSpec ==
    /\ Spec
    /\ WF_vars(Tick)
    /\ WF_vars(PollStart)
    /\ WF_vars(\E t \in timers : TimerFire(t))
    /\ []<>(Stopped \/ bus = <<>>)
    /\ []<>(Stopped \/ awaiting = {})
    /\ []<>(Stopped \/ ~Has(poll.query))

(***************************************************************************)
(* Properties of the timer table, the sweep and the executions             *)
(***************************************************************************)
\* C1: no job is executed while its persisted record is inactive or deleted:
\* whenever executeCronJob goes on to resolve and persist a job, the record
\* it read exists and is active.
C1_ExecutesOnlyActive == Has(history.exec) => Val(history.exec).active

TimersOf(j) == {t \in timers : t.object._id = j}

\* C2: for any sequence of scheduleCronJob calls with the same job id, at
\* most one outstanding timer exists for that id at any time.
C2_AtMostOneTimer == \A j \in Jobs : Cardinality(TimersOf(j)) <= 1

\* the job records a sweep's query returned
RECURSIVE Flatten(_, _)
Flatten(object, k) ==
    IF k > Len(object) THEN <<>>
    ELSE (IF Has(object[k].cronJobs) THEN Val(object[k].cronJobs) ELSE <<>>)
             \o Flatten(object, k + 1)

SweptRecords == IF Has(history.sweep) THEN Flatten(Val(history.sweep).object, 1) ELSE <<>>

SweptRecordSet == {SweptRecords[k] : k \in 1..Len(SweptRecords)}

\* the records the last operation sent to persistence
RECURSIVE FlattenWrites(_, _)
FlattenWrites(writes, k) ==
    IF k > Len(writes) THEN <<>> ELSE writes[k] \o FlattenWrites(writes, k + 1)

SentRecords == LET all == FlattenWrites(history.sent, 1) IN {all[k] : k \in 1..Len(all)}

Stamped(r) == Has(r.clusterId) /\ Has(r.severId) /\ Has(r.workerId)

\* a timer is armed for job r._id at r's nextExecutionTime, or r was already
\* due and the operation ran it at once
ArmedOrRun(r) ==
    \/ \E t \in timers : /\ t.object._id = r._id
                         /\ Has(r.nextExecutionTime)
                         /\ t.fireAt = ParseDate(Val(r.nextExecutionTime))
    \/ r._id \in history.ran

\* C3: under fair scheduling of the sweep and of the timers, an active
\* persisted job whose nextExecutionTime comes due is eventually executed:
\* once the sweep's query has returned the job, it is executed unless it is
\* deactivated or deleted first.
C3_DueJobsEventuallyExecuted ==
    \A j \in Jobs :
        []((\E r \in SweptRecordSet : r._id = j /\ r.active)
              => <>(\/ j \in history.executed
                    \/ ~Has(db[j])
                    \/ ~Val(db[j]).active))

\* C4: after a sweep whose query returned, every returned job that was not
\* in the timer table has status 'assigned' and the ownership fields, that
\* mutation has been sent to persistence, and a timer is armed for it.
C4_SweepAssignsAndArms ==
    \A r \in SweptRecordSet :
        ~Has(Val(history.sweep).table[r._id]) =>
            /\ \E w \in SentRecords : w._id = r._id /\ w.status = "assigned" /\ Stamped(w)
            /\ ArmedOrRun(r)

\* C5: a sweep that finds an active job with status 'assigned' whose
\* nextExecutionTime is more than the grace window in the past, and which
\* has no live timer, re-arms (or fires) it and persists it again.
C5_StaleAssignedRearmed ==
    \A r \in SweptRecordSet :
        (/\ r.active
         /\ r.status = "assigned"
         /\ Has(r.nextExecutionTime)
         /\ ParseDate(Val(r.nextExecutionTime)) < Val(history.sweep).pollNow - Grace
         /\ r._id \notin Val(history.sweep).live)
        => /\ (TimersOf(r._id) # {} \/ r._id \in history.ran)
           /\ \E w \in SentRecords : w._id = r._id


(***************************************************************************)
(* Properties of handleCrudEvent (the batch it has just handled)           *)
(***************************************************************************)
\* handleCrudEvent has just run to its end on a batch of job documents
HandledBatch ==
    /\ Has(history.handled)
    /\ Val(history.handled).data.array = "cron-job"
    /\ process = "running"

HandledRecords ==
    LET object == Val(history.handled).data.object
    IN  {object[k] : k \in 1..Len(object)}

\* the record is a deletion or a deactivation
Removed(rec) ==
    Val(history.handled).data.method = "object.delete" \/ rec.active = FALSE

SentFor(j) == {w \in SentRecords : w._id = j}

\* C11: after handleCrudEvent has handled a batch, every record of it that
\* is a deletion or has active = false has no timer-table entry and no timer,
\* was not handed to getNextExecutionTime and is not among the records sent
\* to persistence; every other record of the batch was still handled (its
\* schedule went to getNextExecutionTime): removing a record skips no
\* neighbour.
C11_RemovedPrunedOthersHandled ==
    HandledBatch =>
        \A rec \in HandledRecords :
            IF Removed(rec)
            THEN /\ ~Has(scheduledJobs[rec._id])
                 /\ TimersOf(rec._id) = {}
                 /\ rec._id \notin history.resolved
                 /\ SentFor(rec._id) = {}
            ELSE rec._id \in history.resolved

\* a batch whose first record was removed and whose second was handled, the
\* removed job having been armed before
C11_Witness ==
    /\ HandledBatch
    /\ LET object == Val(history.handled).data.object
       IN  /\ Len(object) = 2
           /\ Removed(object[1])
           /\ ~Removed(object[2])
           /\ Has(Val(history.handled).table[object[1]._id])
           /\ object[2]._id \in history.resolved


(***************************************************************************)
(* Properties of executeCronJob (the execution that has just happened)     *)
(***************************************************************************)
\* a timer callback has just gone on after its read (lines 272-283)
Executed == Has(history.exec)

ExecutedId == Val(history.exec)._id

\* C12: once the deletion or deactivation of a job has been handled, a
\* timer callback of that job that was already awaiting its read persists
\* nothing for it afterwards.
C12_NoWriteAfterPrune ==
    (Executed /\ Val(history.exec).pruned) => SentFor(ExecutedId) = {}

\* C13: when a job's timer has fired, its entry has left the timer table:
\* every entry of the table is the handle of an outstanding timer of that
\* job, so that the id can be armed again for its next occurrence.
C13_FiredEntryRemoved ==
    \A j \in Jobs :
        Has(scheduledJobs[j]) =>
            \E t \in timers : t.handle = Val(scheduledJobs[j]) /\ t.object._id = j

\* C14: every execution is preceded by the transition assigned -> running:
\* when executeCronJob comes to run the job, the job's status is 'running'.
C14_RunningBeforeExecution ==
    Executed => Val(history.exec).status = "running"

\* the execution found the schedule exhausted (getNextExecutionTime gave null)
ExecutedExhausted ==
    Executed /\ \E w \in SentFor(ExecutedId) : ~Has(w.nextExecutionTime)

ExecutedNotExhausted ==
    Executed /\ \E w \in SentFor(ExecutedId) : Has(w.nextExecutionTime)

\* C15: after a timer fire whose schedule is not exhausted, the record
\* executeCronJob persists has status 'pending' (it is not left 'assigned').
C15_PendingAfterExecution ==
    ExecutedNotExhausted => \A w \in SentFor(ExecutedId) : w.status = "pending"

\* C16: after a timer fire for which getNextExecutionTime returns null, the
\* record persisted has active = false and status 'completed', and the job,
\* now inactive, has no entry in the timer table.
C16_CompletedAndDisarmed ==
    ExecutedExhausted =>
        /\ \A w \in SentFor(ExecutedId) : w.active = FALSE /\ w.status = "completed"
        /\ ~Has(scheduledJobs[ExecutedId])


(***************************************************************************)
(* Properties of handleCrudEvent: the near-term horizon and echoes         *)
(***************************************************************************)
\* what getNextExecutionTime gives for the record's schedule at this instant
ResolvedFor(rec) == getNextExecutionTime(rec.schedule, now, localTz)

\* the record was live, not in the timer table, and resolved to an instant
FreshlyResolved(rec) ==
    /\ ~Removed(rec)
    /\ ~Has(Val(history.handled).table[rec._id])
    /\ ResolvedFor(rec).returns
    /\ Has(ResolvedFor(rec).value)

InHorizon(rec) ==
    /\ ParseDate(Val(ResolvedFor(rec).value)) > now
    /\ ParseDate(Val(ResolvedFor(rec).value)) <= now + Horizon

ArmedForSameInstant(rec) ==
    /\ ~Removed(rec)
    /\ ResolvedFor(rec).returns
    /\ Has(ResolvedFor(rec).value)
    /\ \E t \in Val(history.handled).timers :
           /\ t.object._id = rec._id
           /\ Some(t.handle) = Val(history.handled).table[rec._id]
           /\ t.fireAt = ParseDate(Val(ResolvedFor(rec).value))

\* C18: a create or update notification for a job that is already armed for
\* an identical nextExecutionTime is a no-op: the job's entry in the timer
\* table and its timer are unchanged and nothing is sent to persistence for
\* that job.
C18_EchoIsNoOp ==
    HandledBatch =>
        \A rec \in HandledRecords :
            ArmedForSameInstant(rec) =>
                /\ scheduledJobs[rec._id] = Val(history.handled).table[rec._id]
                /\ TimersOf(rec._id) =
                       {t \in Val(history.handled).timers : t.object._id = rec._id}
                /\ SentFor(rec._id) = {}


(***************************************************************************)
(* Properties of the sweep (the then-callback that has just run)           *)
(***************************************************************************)
Swept == Has(history.sweep)

\* the job's persisted record is deleted or inactive
Retired(j) == ~Has(db[j]) \/ ~Val(db[j]).active

\* C19: after a sweep, no job that is inactive or deleted in persisted state
\* remains in the timer table.
C19_SweepDisarmsRetired ==
    Swept => \A j \in Jobs : Retired(j) => ~Has(scheduledJobs[j])

\* the sweep's query returned r, which was in the timer table already
AlreadyArmed(r) == Has(Val(history.sweep).table[r._id])

\* C20: what happens to one job of a sweep does not stop the sweep for the
\* others: when the query returned a job that was already armed, every other
\* returned job that was not in the timer table is still sent to persistence
\* as 'assigned' and armed (or run, when already due).
C20_SweepGoesOnPastArmedJob ==
    Swept =>
        \A q \in SweptRecordSet, r \in SweptRecordSet :
            (AlreadyArmed(q) /\ ~AlreadyArmed(r)) =>
                /\ \E w \in SentFor(r._id) : w.status = "assigned"
                /\ ArmedOrRun(r)


(***************************************************************************)
(* Properties of the failures of persistence                               *)
(***************************************************************************)
\* the read of a timer callback has just failed (or returned no document)
Rejected == Has(history.rejected)

\* C21: no failure escapes as an uncaught error: when the read of
\* executeCronJob fails or returns no record, the failure is caught and
\* confined to that job, and the process, with the timers of the other jobs,
\* goes on running.
C21_FailuresConfined ==
    /\ process # "crashed"
    /\ Rejected => Val(history.rejected).caught

\* the persisted record of the job whose execution has just failed
RejectedRecord == db[Val(history.rejected)._id]

\* C22: when a job's execution fails and the job has a retryPolicy with
\* retries left, the job is armed again for retryInterval later and stays
\* 'assigned'.
C22_FailedExecutionRetried ==
    (/\ Rejected
     /\ process = "running"
     /\ Has(RejectedRecord)
     /\ Has(Val(RejectedRecord).retryPolicy)
     /\ Val(Val(RejectedRecord).retryPolicy).retries > 0)
    => /\ Val(RejectedRecord).status = "assigned"
       /\ \E t \in TimersOf(Val(RejectedRecord)._id) :
              t.fireAt = now + Val(Val(RejectedRecord).retryPolicy).retryInterval


(***************************************************************************)
(* Properties of handleCrudEvent: what it leaves alone                     *)
(***************************************************************************)
\* the listener has just run handleCrudEvent on a notification about jobs
HandledJobs ==
    /\ Has(history.handled)
    /\ Val(history.handled).data.array = "cron-job"

\* the record is a deletion or deactivation of a job the table did not hold
RemovedUnarmed(rec) ==
    Removed(rec) /\ ~Has(Val(history.handled).table[rec._id])

\* C23: disarming an id that is not armed raises no error and changes
\* nothing: after a delete or deactivation notification for a job without
\* entry in the timer table the handler has run to its end, the job has no
\* entry and the timers it had, and when the notification carried nothing
\* else the table and the timers are what they were.
C23_DisarmUnknownIsNoOp ==
    HandledJobs =>
        \A rec \in HandledRecords :
            RemovedUnarmed(rec) =>
                /\ process = "running"
                /\ ~Has(scheduledJobs[rec._id])
                /\ TimersOf(rec._id) =
                       {t \in Val(history.handled).timers : t.object._id = rec._id}
                /\ Len(Val(history.handled).data.object) = 1 =>
                       /\ scheduledJobs = Val(history.handled).table
                       /\ timers = Val(history.handled).timers

\* the deactivation of a job without entry was handled while another job
\* was armed, and that job still is
C23_Witness ==
    /\ HandledJobs
    /\ \E rec \in HandledRecords, j \in Jobs :
           /\ RemovedUnarmed(rec)
           /\ j # rec._id
           /\ Has(Val(history.handled).table[j])
           /\ TimersOf(j) # {}

\* the listener has just run handleCrudEvent on a notification about
\* another collection
HandledOther ==
    /\ Has(history.handled)
    /\ Val(history.handled).data.array # "cron-job"

\* C24: a notification whose collection is not 'cron-job' is ignored
\* entirely: handleCrudEvent leaves the timer table and the timers as they
\* were, hands no record to getNextExecutionTime, runs nothing and sends
\* nothing to persistence.
C24_OtherCollectionsIgnored ==
    HandledOther =>
        /\ scheduledJobs = Val(history.handled).table
        /\ timers = Val(history.handled).timers
        /\ history.resolved = {}
        /\ history.ran = {}
        /\ history.sent = <<>>
        /\ process = "running"

\* the notification ignored was about the collection 'cron-jobs' and carried
\* a live document due within the horizon, of an id the table did not hold
C24_Witness ==
    /\ HandledOther
    /\ Val(history.handled).data.array = "cron-jobs"
    /\ \E rec \in HandledRecords : FreshlyResolved(rec) /\ InHorizon(rec)

\* before the notification the job was armed for another instant than the
\* one its record now resolves to
ArmedForOtherInstant(rec) ==
    /\ ~Removed(rec)
    /\ ResolvedFor(rec).returns
    /\ Has(ResolvedFor(rec).value)
    /\ \E t \in Val(history.handled).timers :
           /\ t.object._id = rec._id
           /\ Some(t.handle) = Val(history.handled).table[rec._id]
           /\ t.fireAt # ParseDate(Val(ResolvedFor(rec).value))

\* C25: after an update notification that changes the schedule of an armed
\* job so that its record resolves to another instant than the armed one,
\* no timer of the job is left at the stale instant: every outstanding timer
\* of the job fires at the newly resolved instant.
C25_UpdateRearms ==
    HandledBatch =>
        \A rec \in HandledRecords :
            ArmedForOtherInstant(rec) =>
                \A t \in TimersOf(rec._id) :
                    t.fireAt = ParseDate(Val(ResolvedFor(rec).value))


(***************************************************************************)
(* Properties of getNextExecutionTime: the allow-lists and the skip dates  *)
(* (checked under SpecResolve)                                             *)
(***************************************************************************)
\* the call returned an instant for a schedule without cronExpression
ReturnedCandidate ==
    /\ Returned
    /\ Has(resolver.result.value)
    /\ ~Has(resolver.schedule.cronExpression)

\* C26: an instant getNextExecutionTime returns for a schedule without
\* cronExpression satisfies every allow-list of the schedule at once (the
\* process's clock being on the schedule's timezone): its weekday is in
\* daysOfWeek, its day of the month in daysOfMonth, its month in months.
C26_AllowListsAllSatisfied ==
    LET schedule == resolver.schedule
        tz == timezoneOf(schedule)
    IN  (ReturnedCandidate /\ localTz = tz) =>
            /\ Has(schedule.daysOfWeek) =>
                   weekdayName(ResultInstant, tz) \in Val(schedule.daysOfWeek)
            /\ Has(schedule.daysOfMonth) =>
                   getDate(ResultInstant, tz) \in Val(schedule.daysOfMonth)
            /\ Has(schedule.months) =>
                   monthName(ResultInstant, tz) \in Val(schedule.months)

\* C27: an instant getNextExecutionTime returns for a schedule with
\* skipDates and without cronExpression does not fall on a date of skipDates
\* (the UTC calendar date, as the dates of skipDates are compared), also when
\* skipDates holds consecutive dates or a later step moved the candidate.
C27_NeverOnSkipDate ==
    (ReturnedCandidate /\ Has(resolver.schedule.skipDates)) =>
        toISOString(ResultInstant).date \notin Val(resolver.schedule.skipDates)

====
